---- MODULE Spec2Model ----
(***************************************************************************)
(* The bounded-concurrency task scheduler run_queue of 改3/faceswap/       *)
(* scheduler.py, driven against an arbitrary ComfyUI backend; the status   *)
(* oracles ComfyAPI.check_status of faceswap_all/faceswap/comfy_api.py and *)
(* of 改3/faceswap/comfy_api.py; run_queue of faceswap_all/faceswap/       *)
(* scheduler.py; and submit_stage1_jobs of vastai實例內修改版/model/       *)
(* stage1_api.py.                                                          *)
(*                                                                         *)
(* Time is counted in half seconds, so that the whole-second truncation    *)
(* int(now - ts) of the scheduler is a real conversion.  The scheduler     *)
(* keeps the timestamps ts and last_change of an entry; the model keeps    *)
(* the elapsed times now - ts and now - last_change instead, which is all  *)
(* the code ever reads of them, and stops counting them just above the     *)
(* largest threshold they are compared with.                               *)
(***************************************************************************)
EXTENDS Integers, Sequences, FiniteSets, TLC

(* ------------------------------ bounds -------------------------------- *)

\* number of tasks handed to run_queue (one more in the crowded runs)
NumTasks == 2

\* max_inflight is drawn from 1..MaxInflightBound
MaxInflightBound == 2

\* Task.max_retries is drawn from 0..MaxRetriesBound
MaxRetriesBound == 2

\* a tick shorter than the clock's resolution is taken only while no entry
\* has more than this many consecutive no-change polls
MaxQuickPolls == 4

(* -------------------------- program constants ------------------------- *)

STALE_THRESHOLD == 10

STALE_CHECKS == 3

MAX_UNKNOWN_TIME == 30

\* the literal of "if age > 300"
MAX_AGE == 300

(* ------------------------------- time --------------------------------- *)

\* int(x) of a non-negative duration x, given in half seconds
IntSec(d) == d \div 2

\* elapsed times stop being counted just above the thresholds they meet
AgeCap == 2 * (MAX_AGE + 1)

SinceCap == 2 * (MAX_UNKNOWN_TIME + 1)

Min(a, b) == IF a < b THEN a ELSE b

(* ------------------------- the runs explored -------------------------- *)

AllStatuses == {"done", "failed", "running", "queued", "unknown", "raise"}

\* One run: run_queue's arguments and what its surroundings do.  sleep holds
\* the durations (half seconds) one poll pass plus time.sleep(poll_interval)
\* may take, launch those of one post_prompt call, answers what check_status
\* may answer ("raise": it raises), post what post_prompt may do.
Run(m, n, r, sleep, launch, answers) ==
    [max_inflight |-> m, ntasks |-> n, max_retries |-> r,
     sleep |-> sleep, launch |-> launch, answers |-> answers,
     post |-> {"ok", "raise"}]

\* one task in flight at a time, a fine clock: ticks of under half a second,
\* of 30.5 s and of 125 s, submissions that return at once or after 30.5 s
SequentialRuns ==
    { Run(1, n, r, {0, 61, 250}, {0, 61}, AllStatuses) :
        n \in 0 .. NumTasks, r \in 0 .. MaxRetriesBound }

\* every ceiling, a coarse clock: ticks of 60.5 s and of 301 s
CoarseRuns ==
    { Run(m, n, r, {121, 602}, {0}, AllStatuses) :
        m \in 1 .. MaxInflightBound, n \in 0 .. NumTasks, r \in 0 .. MaxRetriesBound }

\* more tasks than the ceiling admits at once, none of them retried
CrowdedRuns == { Run(2, NumTasks + 1, 0, {121, 602}, {0}, AllStatuses) }

\* the orphaned handle: one task whose handle is in neither the queue nor
\* the history, polled once a second
OrphanRuns == { Run(1, 1, r, {2}, {0}, {"unknown"}) : r \in 0 .. MaxRetriesBound }

\* one task with a budget of 2 whose every poll answers done, while its
\* submissions may throw
FlakyPostRuns == { Run(1, 1, 2, {2}, {0}, {"done"}) }

\* 3 tasks under a ceiling of 2, every submission accepted, every poll
\* answered done, one second per pass
SteadyRuns == { [Run(2, 3, 0, {2}, {0}, {"done"}) EXCEPT !.post = {"ok"}] }

\* one task with a budget of 2 that meets every kind of failure:
\* submissions that throw, polls answered failed, and polls answered running
\* until the age ceiling
MixedRuns == { Run(1, 1, 2, {121, 602}, {0}, {"failed", "running"}) }

Runs ==
    SequentialRuns \cup CoarseRuns \cup CrowdedRuns \cup OrphanRuns
    \cup FlakyPostRuns \cup SteadyRuns \cup MixedRuns

(* ------------------------------- data --------------------------------- *)

Tasks == 1 .. NumTasks + 1

NoId == <<0, 0>>

\* the prompt_id the backend hands out for the k-th post_prompt of task t
PromptId(t, k) == <<t, k>>

\* an element of a queue bucket: ["<pid>", n], {"id"/"prompt_id": "<pid>"}
\* or a bare "<pid>"
QItem(shape, id) == [shape |-> shape, id |-> id]

QueueJson(running, pendingq) ==
    [kind |-> "json", queue_running |-> running, queue_pending |-> pendingq]

\* a read that raised, and a read that was not made
NoRead(kind) == [kind |-> kind, queue_running |-> <<>>, queue_pending |-> <<>>]

\* the /queue answers the scheduler's stale re-check is tried against
QueueReads(tid) ==
    { QueueJson(<<>>, <<>>),
      QueueJson(<<QItem("list", tid)>>, <<>>),
      QueueJson(<<QItem("list", NoId)>>, <<QItem("list", tid)>>),
      QueueJson(<<QItem("dict", tid)>>, <<>>),
      QueueJson(<<>>, <<QItem("bare", tid)>>),
      QueueJson(<<QItem("list", NoId)>>, <<>>) }

VARIABLES
    env,            \* the run explored (constant during it)
    tasks,          \* run_queue's argument: the list of tasks
    max_inflight,   \* run_queue's parameter
    task,           \* task[t] = [retries, max_retries] of the t-th Task
    pending,        \* list of tasks waiting for submission
    inflight,       \* list of in-flight entries
    done,           \* list of Results
    pc,             \* where run_queue stands
    i,              \* index of the poll loop (1-based here)
    posts,          \* posts[t]: post_prompt calls made for task t so far
    obs,            \* the check_status observation of the latest poll
    ticks,          \* passes of the outer loop completed (time.sleep calls),
                    \* counted in the runs whose length is asked about
    oracle,         \* one call of ComfyAPI.check_status (faceswap_all)
    prior,          \* what an earlier call with the same snapshots returned
    fa,             \* run_queue of faceswap_all: its locals and position
    probe,          \* one call of ComfyAPI.check_status (改3)
    s1              \* submit_stage1_jobs: its locals and position

sched == <<env, tasks, max_inflight, task, pending, inflight, done, pc, i, posts, obs, ticks>>

calls == <<oracle, prior, fa, probe, s1>>

vars == <<sched, calls>>

\* out: what check_status did (its answer, or "raise"); status: what the
\* scheduler took it for; queue: what the stale re-check's get_queue did
NoObs == [id |-> NoId, out |-> "none", status |-> "none", queue |-> NoRead("skip")]

(* ---------------------- ComfyAPI (faceswap_all) ------------------------ *)

\* Python's None
None == "<None>"

\* whether Python takes the value for true (texts and None only)
Truthy(x) == x # None /\ x # ""

\* "a or b"
Or(a, b) == IF Truthy(a) THEN a ELSE b

\* str.strip() on the texts that occur
Strip(s) ==
    CASE s = " p1 " -> "p1"
      [] s = " OK " -> "OK"
      [] s = " Failed" -> "Failed"
      [] OTHER -> s

\* str.lower() on the texts that occur
Lower(s) ==
    CASE s = "Success" -> "success"
      [] s = "OK" -> "ok"
      [] s = "COMPLETED" -> "completed"
      [] s = "Failed" -> "failed"
      [] s = "Error" -> "error"
      [] OTHER -> s

\* the handles check_status is asked about
Handles == {"p1", " p1 "}

\* an element of a bucket of /queue: ["<pid>", n] (shape list, id its first
\* element), {"id": .., "prompt_id": ..} (shape dict), a bare value, or []
\* (shape empty, id the text str() makes of it)
Item(shape, id, prompt_id) == [shape |-> shape, id |-> id, prompt_id |-> prompt_id]

\* the JSON of /queue: absent keys are empty buckets
Queue(queue_running, running, queue_pending, pendingq) ==
    [kind |-> "json", queue_running |-> queue_running, running |-> running,
     queue_pending |-> queue_pending, pending |-> pendingq]

\* a get_queue call that raised ("raise"), or was not made ("skip")
NoQueue(kind) ==
    [kind |-> kind, queue_running |-> <<>>, running |-> <<>>,
     queue_pending |-> <<>>, pending |-> <<>>]

\* the /queue answers tried
Queues ==
    { Queue(<<>>, <<>>, <<>>, <<>>),
      Queue(<<Item("list", "p1", None)>>, <<>>, <<>>, <<>>),
      Queue(<<>>, <<>>, <<Item("list", "p1", None)>>, <<>>),
      Queue(<<>>, <<Item("dict", "p1", None)>>, <<>>, <<>>),
      Queue(<<>>, <<>>, <<>>, <<Item("bare", "p1", None)>>),
      Queue(<<Item("list", "p2", None)>>, <<>>, <<Item("list", "p1", None)>>, <<>>),
      Queue(<<Item("list", "p2", None)>>, <<Item("list", "p1", None)>>, <<>>, <<>>),
      Queue(<<Item("dict", "p2", "p1")>>, <<>>, <<>>, <<>>),
      Queue(<<Item("dict", None, "p1")>>, <<>>, <<>>, <<>>),
      Queue(<<Item("dict", "", " p1 ")>>, <<>>, <<Item("bare", "p1", None)>>, <<>>),
      Queue(<<Item("list", " p1 ", None)>>, <<>>, <<>>, <<>>),
      Queue(<<Item("list", "p2", None), Item("bare", "p1", None)>>, <<>>,
            <<Item("list", "p1", None)>>, <<>>),
      Queue(<<Item("list", "p2", None)>>, <<>>, <<>>, <<>>),
      Queue(<<Item("bare", None, None), Item("empty", "[]", None)>>, <<>>,
            <<Item("bare", "", None)>>, <<>>) }

\* the keys _extract_status_fields tries, in its order
StatusKeys == <<"status_str", "status", "state", "phase", "label", "text">>

NoKeys == [k \in {StatusKeys[j] : j \in 1 .. Len(StatusKeys)} |-> None]

\* the value under "status" of a history record: absent, a text, a dict
\* (its "completed": absent, "true", "false", or "nonbool"), or another type
StatusVal(type, text, completed, keys) ==
    [type |-> type, text |-> text, completed |-> completed, keys |-> keys]

StatusAbsent == StatusVal("absent", None, None, NoKeys)

StatusStr(text) == StatusVal("str", text, None, NoKeys)

StatusDict(completed, keys) == StatusVal("dict", None, completed, keys)

StatusTexts ==
    { "success", "Success", " OK ", "COMPLETED", "done", "finished",
      " Failed", "Error", "interrupted", "exception", "running", "" }

StatusVals ==
    {StatusAbsent, StatusVal("other", None, None, NoKeys)}
    \cup {StatusStr(x) : x \in StatusTexts}
    \cup { StatusDict("true", [NoKeys EXCEPT !["status_str"] = "success"]),
           StatusDict("false", [NoKeys EXCEPT !["status_str"] = "error"]),
           StatusDict("true", NoKeys),
           StatusDict("false", NoKeys),
           StatusDict("nonbool", NoKeys),
           StatusDict(None, [NoKeys EXCEPT !["status"] = "Error"]),
           StatusDict(None, [NoKeys EXCEPT !["status"] = "running", !["text"] = "failed"]),
           StatusDict(None, [NoKeys EXCEPT !["status_str"] = "", !["state"] = "failed"]),
           StatusDict(None, [NoKeys EXCEPT !["text"] = " Failed"]),
           StatusDict("true", [NoKeys EXCEPT !["status_str"] = "running"]),
           StatusDict("true", [NoKeys EXCEPT !["status_str"] = "error"]) }

\* a history record; error, node_errors and outputs are "absent", "empty"
\* or "nonempty"
Rec(status, error, node_errors, outputs) ==
    [status |-> status, error |-> error, node_errors |-> node_errors,
     outputs |-> outputs]

Fill == {"absent", "empty", "nonempty"}

\* rec.get(key) taken for true
Filled(v) == v = "nonempty"

Recs ==
    {Rec(s, "absent", "absent", o) : s \in StatusVals, o \in {"absent", "nonempty"}}
    \cup {Rec(s, e, n, o) : s \in {StatusAbsent, StatusStr("running")},
                            e \in Fill, n \in Fill, o \in Fill}

\* what /history/{prompt_id} holds under the key prompt_id, at the top level
\* or under "history": nothing, something that is no dict, or a record
Entry(is, rec) == [is |-> is, rec |-> rec]

NoRec == Rec(StatusAbsent, "absent", "absent", "absent")

NoEntry == Entry("absent", NoRec)

\* the answer of /history/{prompt_id}: the call raised, the JSON is no dict,
\* or a dict with these two places
History(kind, top, nested) == [kind |-> kind, top |-> top, nested |-> nested]

Histories ==
    { History("raise", NoEntry, NoEntry),
      History("notdict", NoEntry, NoEntry),
      History("json", NoEntry, NoEntry),
      History("json", Entry("notdict", NoRec), NoEntry) }
    \cup {History("json", Entry("dict", r), NoEntry) : r \in Recs}
    \cup {History("json", NoEntry, Entry("dict", r)) :
             r \in {x \in Recs : x.status = StatusAbsent}}
    \cup {History("json", Entry("notdict", NoRec), Entry("dict", r)) :
             r \in {x \in Recs : x.status = StatusStr("Error")}}

\* _normalize_id
normalize_id(x) ==
    IF x = None THEN None
    ELSE LET s == Strip(x) IN IF s # "" THEN s ELSE None

\* a _match_bucket that knows only the pair shape
match_bucket_PairsOnly(bucket, pid) ==
    \E j \in 1 .. Len(bucket) :
        bucket[j].shape = "list" /\ normalize_id(bucket[j].id) = pid

\* _match_bucket of _id_in_queue
match_bucket(bucket, pid) ==
    \E j \in 1 .. Len(bucket) :
        LET item == bucket[j] IN
        CASE item.shape = "list" -> normalize_id(item.id) = pid
          [] item.shape = "dict" -> normalize_id(Or(item.id, item.prompt_id)) = pid
          [] OTHER -> normalize_id(item.id) = pid

\* "queue.get(k1) or queue.get(k2) or []"
Bucket(first, second) == IF first # <<>> THEN first ELSE second

\* _id_in_queue: "running", "queued" or None
id_in_queue(queue, prompt_id) ==
    LET pid == normalize_id(prompt_id)
        running == Bucket(queue.queue_running, queue.running)
        pendingq == Bucket(queue.queue_pending, queue.pending)
    IN
    IF match_bucket(running, pid) THEN "running"
    ELSE IF match_bucket(pendingq, pid) THEN "queued"
    ELSE None

\* the first key of the status dict that holds a value
RECURSIVE FirstKey(_, _)
FirstKey(keys, j) ==
    IF j > Len(StatusKeys) THEN 0
    ELSE IF keys[StatusKeys[j]] # None THEN j
    ELSE FirstKey(keys, j + 1)

\* _extract_status_fields: (status_str, completed)
extract_status_fields(rec) ==
    LET status_val == rec.status
        completed == IF status_val.completed \in {"true", "false"}
                     THEN status_val.completed ELSE None
        j == FirstKey(status_val.keys, 1)
    IN
    CASE status_val.type = "dict" ->
            [status_str |-> IF j = 0 THEN ""
                            ELSE Lower(Strip(status_val.keys[StatusKeys[j]])),
             completed |-> completed]
      [] status_val.type = "str" ->
            [status_str |-> Lower(Strip(status_val.text)), completed |-> None]
      [] OTHER -> [status_str |-> "", completed |-> None]

\* peek_history: the record, or None (as an absent entry)
peek_history(hist) ==
    IF hist.kind # "json" THEN NoEntry
    ELSE IF hist.top.is = "dict" THEN hist.top
    ELSE IF hist.nested.is = "dict" THEN hist.nested
    ELSE NoEntry

\* where a call of check_status stands: the status returned and the line of
\* the return, or no status and the line of the get_queue call it waits at
At(status, line) == [status |-> status, line |-> line]

\* steps 5 and 6 of check_status: the outputs, then the last look at the queue
AfterErrors(prompt_id, rec, q3) ==
    LET inq2 == id_in_queue(q3, prompt_id) IN
    IF Filled(rec.outputs) THEN At("done", 217)
    ELSE IF q3.kind = "skip" THEN At("none", 221)
    ELSE IF q3.kind = "raise" THEN At("unknown", 227)
    ELSE IF inq2 = None THEN At("unknown", 224)
    ELSE At(inq2, 225)

\* the history steps knowing only failed and error as tokens of failure
FromHistory_FewTokens(prompt_id, hist, q2, q3) ==
    LET entry == peek_history(hist)
        rec == entry.rec
        sf == extract_status_fields(rec)
    IN
    IF entry.is # "dict" THEN At("unknown", 230)
    ELSE IF sf.status_str \in {"failed", "error"} THEN At("failed", 198)
    ELSE IF sf.completed = "true"
            \/ sf.status_str \in {"completed", "success", "ok", "done", "finished"}
    THEN At("done", 202)
    ELSE AfterErrors(prompt_id, rec, q3)

\* check_status from the history lookup on
FromHistory(prompt_id, hist, q2, q3) ==
    LET entry == peek_history(hist)
        rec == entry.rec
        sf == extract_status_fields(rec)
    IN
    IF entry.is # "dict" THEN At("unknown", 230)
    ELSE IF sf.status_str \in {"failed", "error", "interrupted", "exception"}
    THEN At("failed", 198)
    ELSE IF sf.completed = "true"
            \/ sf.status_str \in {"completed", "success", "ok", "done", "finished"}
    THEN At("done", 202)
    ELSE IF Filled(rec.error) \/ Filled(rec.node_errors)
    THEN IF q2.kind = "skip" THEN At("none", 209)
         ELSE IF q2.kind = "raise" THEN At("failed", 213)
         ELSE IF id_in_queue(q2, prompt_id) = None THEN At("failed", 211)
         ELSE AfterErrors(prompt_id, rec, q3)
    ELSE AfterErrors(prompt_id, rec, q3)

\* check_status keeping a note between calls: a handle it called unknown
\* once is called done the next time
check_status_Remembering(prompt_id, q1, hist, q2, q3) ==
    LET inq == id_in_queue(q1, prompt_id) IN
    IF q1.kind = "skip" THEN At("none", 183)
    ELSE IF prior.made /\ prior.status = "unknown" THEN At("done", 217)
    ELSE IF q1.kind = "json" /\ inq # None THEN At(inq, 186)
    ELSE FromHistory(prompt_id, hist, q2, q3)

\* check_status with the record asked before the queue is believed
check_status_RecordFirst(prompt_id, q1, hist, q2, q3) ==
    LET inq == id_in_queue(q1, prompt_id)
        r == FromHistory(prompt_id, hist, q2, q3)
    IN
    IF q1.kind = "skip" THEN At("none", 183)
    ELSE IF r.line \in {198, 202} THEN r
    ELSE IF q1.kind = "json" /\ inq # None THEN At(inq, 186)
    ELSE r

\* check_status, given the answers of the reads it has made so far
check_status(prompt_id, q1, hist, q2, q3) ==
    LET inq == id_in_queue(q1, prompt_id) IN
    IF q1.kind = "skip" THEN At("none", 183)
    ELSE IF q1.kind = "json" /\ inq # None THEN At(inq, 186)
    ELSE FromHistory(prompt_id, hist, q2, q3)

\* a call: its argument, the backend's history, the queue answers read so
\* far, and where it stands
Call(prompt_id, hist, q1, q2, q3) ==
    [prompt_id |-> prompt_id, hist |-> hist, q1 |-> q1, q2 |-> q2, q3 |-> q3,
     at |-> check_status(prompt_id, q1, hist, q2, q3)]

\* no earlier call: made says whether one was, queue is the snapshot of
\* /queue that every read of both calls sees
NoPrior == [made |-> FALSE, status |-> "none", queue |-> NoQueue("skip")]

\* no call under way
NoCall ==
    [prompt_id |-> None, hist |-> History("raise", NoEntry, NoEntry),
     q1 |-> NoQueue("skip"), q2 |-> NoQueue("skip"), q3 |-> NoQueue("skip"),
     at |-> At("idle", 0)]

(* --------------------------- ComfyAPI (改3) ---------------------------- *)

\* the handle check_status (改3) is asked about
Handle3 == PromptId(1, 1)

\* _id_in_queue: a keyed record matches through any of its values, a list
\* through its first element, nothing else matches
in_bucket3(bucket, prompt_id) ==
    \E j \in 1 .. Len(bucket) :
        bucket[j].shape \in {"dict", "list"} /\ bucket[j].id = prompt_id

id_in_queue3(q, prompt_id) ==
    IF in_bucket3(q.queue_running, prompt_id) THEN "running"
    ELSE IF in_bucket3(q.queue_pending, prompt_id) THEN "queued"
    ELSE None

\* the value of "status" in a record of the history, as 改3 meets it
StatusVals3 ==
    {StatusAbsent, StatusDict("true", NoKeys), StatusVal("other", None, None, NoKeys)}
    \cup {StatusStr(x) : x \in {"success", "Success", "COMPLETED", "done", "Error",
                                "failed", "interrupted", "running", ""}}

\* the records tried; outputs "empty" is a key that holds None, {} or []
Recs3 ==
    {Rec(st, "absent", "absent", o) : st \in StatusVals3, o \in Fill}

\* an entry that is JSON null, or a missing key after .get()
NullEntry == Entry("null", NoRec)

\* the JSON of /history/{prompt_id}: what stands under the key prompt_id,
\* what kind of value stands under "history" and what that holds under
\* prompt_id, and whether the answer has other keys
History3(kind, top, hkey, nested, others) ==
    [kind |-> kind, top |-> top, hkey |-> hkey, nested |-> nested, others |-> others]

Histories3 ==
    { History3("raise", NoEntry, "absent", NoEntry, FALSE),
      History3("notdict", NoEntry, "absent", NoEntry, FALSE),
      History3("json", NoEntry, "absent", NoEntry, FALSE),
      History3("json", NoEntry, "absent", NoEntry, TRUE),
      History3("json", NoEntry, "notdict", NoEntry, FALSE),
      History3("json", NoEntry, "dict", NoEntry, FALSE),
      History3("json", NullEntry, "absent", NoEntry, FALSE),
      History3("json", Entry("notdict", NoRec), "absent", NoEntry, FALSE) }
    \cup {History3("json", Entry("dict", r), "absent", NoEntry, FALSE) : r \in Recs3}
    \cup {History3("json", NoEntry, "dict", Entry("dict", r), FALSE) :
             r \in {x \in Recs3 : x.status \in {StatusAbsent, StatusStr("Error")}}}

\* the marker peek_history makes up for an empty answer:
\* {"status": "completed", "outputs": None}
Marker3 == Entry("dict", Rec(StatusStr("completed"), "absent", "absent", "empty"))

\* peek_history (改3); None is NullEntry
peek_history3(hist) ==
    IF hist.kind # "json" THEN NullEntry
    ELSE IF hist.top.is # "absent" THEN hist.top
    ELSE IF hist.hkey = "dict"
    THEN IF hist.nested.is = "absent" THEN NullEntry ELSE hist.nested
    ELSE IF hist.hkey = "absent" /\ ~hist.others THEN Marker3
    ELSE NullEntry

\* lines 116-147: the history record decides
FromRecord3(prompt_id, q1, rec, q2) ==
    LET sv == rec.status
        status == IF sv.type = "str" /\ Truthy(sv.text) THEN Lower(sv.text) ELSE ""
    IN
    IF sv.type \in {"dict", "other"} THEN At("raise", 118)
    ELSE IF status \in {"failed", "error", "interrupted"} THEN At("failed", 122)
    ELSE IF status \in {"completed", "success", "ok", "done", "finished"}
    THEN At("done", 126)
    ELSE IF Filled(rec.outputs) THEN At("done", 130)
    ELSE IF rec = NoRec THEN At("running", 147)
    ELSE IF q1.kind = "raise" THEN At("raise", 135)
    ELSE IF q2.kind = "skip" THEN At("none", 140)
    ELSE IF q2.kind = "json" /\ id_in_queue3(q2, prompt_id) = None
    THEN At("done", 143)
    ELSE At("running", 147)

\* check_status (改3), given the answers of the reads it has made so far;
\* the status "raise" is an exception that leaves the call
check_status3(prompt_id, q1, hist, q2) ==
    LET rec == peek_history3(hist) IN
    IF q1.kind = "skip" THEN At("none", 107)
    ELSE IF q1.kind = "json" /\ id_in_queue3(q1, prompt_id) # None
    THEN At(id_in_queue3(q1, prompt_id), 110)
    ELSE IF rec.is = "null" THEN At("unknown", 150)
    ELSE IF rec.is = "notdict" THEN At("raise", 118)
    ELSE FromRecord3(prompt_id, q1, rec.rec, q2)

Call3(prompt_id, hist, q1, q2) ==
    [prompt_id |-> prompt_id, hist |-> hist, q1 |-> q1, q2 |-> q2,
     at |-> check_status3(prompt_id, q1, hist, q2)]

\* no call under way
NoProbe ==
    [prompt_id |-> NoId, hist |-> History3("raise", NoEntry, "absent", NoEntry, FALSE),
     q1 |-> NoRead("skip"), q2 |-> NoRead("skip"), at |-> At("idle", 0)]

(* --------------- submit_stage1_jobs: arguments, state ------------------ *)

\* submit_stage1_jobs(jobs, max_inflight=m, max_retries=r) is called with n
\* jobs.  pending holds (job, retries left) pairs, inflight the entries of
\* the dict in the order of their insertion, to_rm the ids the poll pass
\* has marked, k the position of the poll pass.
S1Start(m, n, r) ==
    [pc |-> "loop", max_inflight |-> m, njobs |-> n,
     pending |-> [j \in 1 .. n |-> [job |-> j, r |-> r]],
     inflight |-> <<>>, to_rm |-> {}, k |-> 1,
     submits |-> [j \in Tasks |-> 0]]

\* submit_stage1_jobs not called
S1Idle == [S1Start(1, 0, 0) EXCEPT !.pc = "idle"]

\* what job.submit() may do
S1SubmitOutcomes == {"ok", "raise"}

\* what the history read of one entry may come to: a completion token, a
\* failure token, any other status, or an exception
S1PollOutcomes == {"done", "fail", "pending", "raise"}

\* whether the "except" clause of the submission handles the exception with
\* r retries left ("if r > 0 ... else: raise")
S1SubmitRecovered(r) == r > 0

(* ------------- run_queue (faceswap_all): arguments, state -------------- *)

\* the max_inflight argument: None, or a number
NoLimit == [given |-> FALSE, n |-> 0]

Limit(n) == [given |-> TRUE, n |-> n]

Limits == {NoLimit} \cup {Limit(n) : n \in -1 .. MaxInflightBound}

\* an unbounded test that knows None only
unbounded_NoneOnly(mi) == ~mi.given

\* "unbounded = (max_inflight is None) or (max_inflight == 0)"
unbounded(mi) == ~mi.given \/ mi.n = 0

\* "max_inflight = max(1, int(max_inflight))"
Ceiling(mi) == IF mi.n > 1 THEN mi.n ELSE 1

\* what _submit may come back with: a prompt_id, no prompt_id in the answer,
\* or post_prompt raised
SubmitOutcomes == {"ok", "nopid", "raise"}

\* the err of _submit
submit_err(out) ==
    CASE out = "ok" -> "none"
      [] out = "nopid" -> "post_prompt: no prompt_id"
      [] OTHER -> "post_prompt: raised"

\* what _check_done may find: no record yet, a read that raised, a record
\* that tells completion, a record that tells failure, a bare record of a
\* handle still in the queue
CheckOutcomes == {"norecord", "raise", "completed", "error", "inqueue"}

\* the backends run_queue is run against: one that may answer a check in
\* any way, and one whose history never holds a record
Backends == {CheckOutcomes, {"norecord"}}

\* a check that takes a missing record for completion
check_done_NoRecordIsDone(out) ==
    CASE out \in {"completed", "norecord"} -> [done |-> TRUE, err |-> "none"]
      [] out = "error" -> [done |-> TRUE, err |-> "error"]
      [] OTHER -> [done |-> FALSE, err |-> "none"]

\* a check that takes a read that raised for a failure of the task
check_done_RaiseIsError(out) ==
    CASE out = "completed" -> [done |-> TRUE, err |-> "none"]
      [] out \in {"error", "raise"} -> [done |-> TRUE, err |-> "error"]
      [] OTHER -> [done |-> FALSE, err |-> "none"]

\* the (done, err) of _check_done
check_done(out) ==
    CASE out = "completed" -> [done |-> TRUE, err |-> "none"]
      [] out = "error" -> [done |-> TRUE, err |-> "error"]
      [] OTHER -> [done |-> FALSE, err |-> "none"]

\* _res
Res(t, prompt_id, error) == [task |-> t, prompt_id |-> prompt_id, error |-> error]

\* run_queue(api, tasks, max_inflight=mi) is called with n tasks of budget r;
\* seen is what the latest _check_done found, checks what _check_done may
\* find during the run
FaStart(mi, n, r) ==
    [pc |-> "entry", max_inflight |-> mi, ntasks |-> n,
     budget |-> [t \in Tasks |-> r],
     pending |-> [t \in 1 .. n |-> t], active |-> <<>>, results |-> <<>>,
     i |-> 0, polled |-> FALSE, submits |-> [t \in Tasks |-> 0],
     seen |-> "none", checks |-> CheckOutcomes]

\* run_queue (faceswap_all) not called
FaIdle == [FaStart(NoLimit, 0, 0) EXCEPT !.pc = "idle"]

(* --------------------------- run_queue (改3) -------------------------- *)

\* the loop test that never ends the loop
LoopCond_Forever(p, f) == TRUE

\* the loop test that forgets the in-flight list
LoopCond_PendingOnly(p, f) == p # <<>>

\* "while pending or inflight"
LoopCond(p, f) == p # <<>> \/ f # <<>>

\* an admit test that lets one task in at a time
CanAdmit_OneAtATime(p, f, m) == p # <<>> /\ Len(f) < 1

\* the admit test off by one
CanAdmit_OffByOne(p, f, m) == p # <<>> /\ Len(f) <= m

\* "while pending and len(inflight) < max_inflight"
CanAdmit(p, f, m) == p # <<>> /\ Len(f) < m

\* Task(name, workflow, max_retries=r).  drew is no field of the code's
\* Task: it keeps the kinds of failure that have consumed a retry of it,
\* in the runs where the mix of them is asked about.
NewTask(r) == [retries |-> 0, max_retries |-> r, drew |-> {}]

\* a budget test that always grants a retry
HasRetry_Unbounded(tk) == TRUE

\* the budget test off by one
HasRetry_OffByOne(tk) == tk.retries <= tk.max_retries

\* "if t.retries < t.max_retries"
HasRetry(tk) == tk.retries < tk.max_retries

\* a re-queue that loses the task
Requeue_Lost(p, t) == p

\* a re-queue that appends the task twice
Requeue_Twice(p, t) == Append(Append(p, t), t)

\* a re-queue at the head
Requeue_Front(p, t) == <<t>> \o p

\* "pending.append(t)"
Requeue(p, t) == Append(p, t)

\* "inflight.pop(i)"
PopAt(f, k) == [j \in 1 .. (Len(f) - 1) |-> IF j < k THEN f[j] ELSE f[j + 1]]

\* post_prompt called outside its try
Guarded_NoPost(site) == site \in {"check_status", "peek_history", "get_queue"}

\* peek_history called outside its try
Guarded_NoPeek(site) == site \in {"post_prompt", "check_status", "get_queue"}

\* whether the call at this site stands inside a try/except Exception
Guarded(site) == site \in {"post_prompt", "check_status", "peek_history", "get_queue"}

\* the entry launch_one appends.  run_status and run_len are no fields of
\* the code's entry: they keep the status the latest poll of the entry was
\* given and the number of polls in a row that repeated it.
NewEntry(t, pid) ==
    [task |-> t, id |-> pid, age |-> 0, since |-> 0,
     last_status |-> "queued", no_change_count |-> 0,
     run_status |-> "queued", run_len |-> 0]

\* the passing of d half seconds, as every entry's timestamps see it
Elapse(f, d) ==
    [j \in 1 .. Len(f) |->
        [f[j] EXCEPT !.age = Min(@ + d, AgeCap), !.since = Min(@ + d, SinceCap)]]

\* a probe that takes an exception for a remote failure
ProbeStatus_AsFailed(out) == IF out = "raise" THEN "failed" ELSE out

\* "status = api.check_status(tid)" under its except clause
ProbeStatus(out) == IF out = "raise" THEN "probe-error" ELSE out

\* a change detection that keeps counting across a change of status
Observe_NoReset(item, status) ==
    IF status # item.last_status
    THEN [item EXCEPT !.last_status = status, !.since = 0]
    ELSE [item EXCEPT !.no_change_count = @ + 1]

\* the record of the polls of an entry, kept beside the code's own fields
Tally(item, status) ==
    [item EXCEPT !.run_len = IF status = item.run_status THEN @ + 1 ELSE 0,
                 !.run_status = status]

\* the change detection of one poll
Observe(item, status) ==
    IF status # item.last_status
    THEN [item EXCEPT !.last_status = status, !.since = 0, !.no_change_count = 0]
    ELSE [item EXCEPT !.no_change_count = @ + 1]

\* the scheduler's own scan of a /queue answer for tid
InQueueScan(q, tid) ==
    \E bucket \in {q.queue_running, q.queue_pending} :
        \E j \in 1 .. Len(bucket) : bucket[j].shape = "list" /\ bucket[j].id = tid

\* whether the stale re-check is entered
StaleSuspect(status, tsc, ncc) ==
    status \in {"running", "queued"} /\ tsc > STALE_THRESHOLD /\ ncc > STALE_CHECKS

\* the chain without the age ceiling
Disposition_NoAgeCeiling(status, tsc, ncc, age, inq) ==
    IF status = "done" THEN "done"
    ELSE IF status = "failed" THEN "failed"
    ELSE IF status = "unknown" /\ tsc > MAX_UNKNOWN_TIME THEN "no_output"
    ELSE IF status \in {"running", "queued"} /\ tsc > STALE_THRESHOLD
            /\ ncc > STALE_CHECKS /\ inq = "absent" THEN "heuristic"
    ELSE "keep"

\* the chain without the long-unknown rule
Disposition_NoUnknownRule(status, tsc, ncc, age, inq) ==
    IF status = "done" THEN "done"
    ELSE IF status = "failed" THEN "failed"
    ELSE IF status \in {"running", "queued"} /\ tsc > STALE_THRESHOLD
            /\ ncc > STALE_CHECKS /\ inq = "absent" THEN "heuristic"
    ELSE IF age > MAX_AGE THEN "timeout"
    ELSE "keep"

\* what the poll does with the entry: the if/elif chain and the age check
Disposition(status, tsc, ncc, age, inq) ==
    IF status = "done" THEN "done"
    ELSE IF status = "failed" THEN "failed"
    ELSE IF status = "unknown" /\ tsc > MAX_UNKNOWN_TIME THEN "no_output"
    ELSE IF StaleSuspect(status, tsc, ncc) /\ inq = "absent" THEN "heuristic"
    ELSE IF age > MAX_AGE THEN "timeout"
    ELSE "keep"

Result(t, err, res) == [task |-> t, error |-> err, result |-> res]

\* the record stored for a task polled done
DoneRecord(peek) ==
    CASE peek = "record" -> "history"
      [] peek = "empty" -> "done-no-outputs"
      [] OTHER -> "done-only"

Init ==
    /\ env \in Runs
    /\ max_inflight = env.max_inflight
    /\ tasks = [t \in 1 .. env.ntasks |-> t]
    /\ task = [t \in Tasks |-> NewTask(env.max_retries)]
    /\ pending = tasks
    /\ inflight = <<>>
    /\ done = <<>>
    /\ pc = "loop"
    /\ i = 1
    /\ posts = [t \in Tasks |-> 0]
    /\ obs = NoObs
    /\ ticks = 0
    /\ oracle = NoCall
    /\ prior = NoPrior
    /\ fa = FaIdle
    /\ probe = NoProbe
    /\ s1 = S1Idle

\* the test of the outer while
LoopTest ==
    /\ pc = "loop"
    /\ pc' = IF LoopCond(pending, inflight) THEN "admit" ELSE "returned"
    /\ obs' = NoObs
    /\ UNCHANGED <<env, tasks, max_inflight, task, pending, inflight, done, i, posts, ticks, calls>>

\* the retry-or-drop rule shared by the three failure paths
RetryOrDrop(t, p, err) ==
    IF HasRetry(task[t])
    THEN /\ task' = [task EXCEPT ![t].retries = @ + 1,
                                 ![t].drew = IF env \in MixedRuns THEN @ \cup {err} ELSE @]
         /\ pending' = Requeue(p, t)
         /\ done' = done
    ELSE /\ done' = Append(done, Result(t, err, "none"))
         /\ pending' = p
         /\ task' = task

\* one pass of the inner admit loop: pop the head, launch_one
Launch ==
    /\ pc = "admit"
    /\ CanAdmit(pending, inflight, max_inflight)
    /\ LET t == Head(pending) IN
       \E out \in env.post, d \in env.launch :
          /\ posts' = [posts EXCEPT ![t] = @ + 1]
          /\ obs' = [NoObs EXCEPT !.out = out, !.status = "post"]
          /\ IF out = "ok"
             THEN /\ inflight' = Append(Elapse(inflight, d), NewEntry(t, PromptId(t, posts[t] + 1)))
                  /\ pending' = Tail(pending)
                  /\ UNCHANGED <<task, done, pc>>
             ELSE IF Guarded("post_prompt")
             THEN /\ inflight' = Elapse(inflight, d)
                  /\ RetryOrDrop(t, Tail(pending), "enqueue")
                  /\ pc' = pc
             ELSE /\ pc' = "raised"
                  /\ pending' = Tail(pending)
                  /\ UNCHANGED <<task, inflight, done>>
    /\ UNCHANGED <<env, tasks, max_inflight, i, ticks, calls>>

\* the admit loop ends; "i = 0; now = time.time()"
StartPoll ==
    /\ pc = "admit"
    /\ ~CanAdmit(pending, inflight, max_inflight)
    /\ pc' = "poll"
    /\ i' = 1
    /\ UNCHANGED <<env, tasks, max_inflight, task, pending, inflight, done, posts, obs, ticks, calls>>

\* one pass of the poll loop for inflight[i], check_status answering out
PollWith(out) ==
    /\ pc = "poll"
    /\ out \in env.answers
    /\ i <= Len(inflight)
    /\ LET item == inflight[i]
           t == item.task
           tid == item.id
           status == ProbeStatus(out)
           age == IntSec(item.age)
           tsc == IntSec(item.since)
           item2 == Tally(Observe(item, status), status)
           suspect == StaleSuspect(status, tsc, item2.no_change_count)
       IN
       IF out = "raise" /\ ~Guarded("check_status")
       THEN /\ pc' = "raised"
            /\ UNCHANGED <<task, pending, inflight, done, i, obs>>
       ELSE
       /\ \E peek \in IF status = "done" THEN {"record", "empty", "raise"} ELSE {"skip"},
             qr \in IF suspect THEN QueueReads(tid) \cup {NoRead("raise")}
                              ELSE {NoRead("skip")} :
            LET inq == IF qr.kind # "json" THEN qr.kind
                       ELSE IF InQueueScan(qr, tid) THEN "present" ELSE "absent"
                disp == Disposition(status, tsc, item2.no_change_count, age, inq)
                rest == PopAt(inflight, i)
            IN
            IF (peek = "raise" /\ ~Guarded("peek_history"))
               \/ (qr.kind = "raise" /\ ~Guarded("get_queue"))
            THEN /\ pc' = "raised"
                 /\ inflight' = [inflight EXCEPT ![i] = item2]
                 /\ UNCHANGED <<task, pending, done, i, obs>>
            ELSE
            /\ pc' = pc
            /\ obs' = [id |-> tid, out |-> out, status |-> status, queue |-> qr]
            /\ CASE disp = "done" ->
                      /\ done' = Append(done, Result(t, "none", DoneRecord(peek)))
                      /\ inflight' = rest
                      /\ UNCHANGED <<task, pending, i>>
                 [] disp = "failed" ->
                      /\ inflight' = rest
                      /\ RetryOrDrop(t, pending, "failed")
                      /\ i' = i
                 [] disp \in {"no_output", "heuristic"} ->
                      /\ done' = Append(done, Result(t, "none", disp))
                      /\ inflight' = rest
                      /\ UNCHANGED <<task, pending, i>>
                 [] disp = "timeout" ->
                      /\ inflight' = rest
                      /\ RetryOrDrop(t, pending, "timeout")
                      /\ i' = i
                 [] OTHER ->
                      /\ inflight' = [inflight EXCEPT ![i] = item2]
                      /\ i' = i + 1
                      /\ UNCHANGED <<task, pending, done>>
    /\ UNCHANGED <<env, tasks, max_inflight, posts, ticks, calls>>

\* a poll on which check_status reports done or failed
PollTerminal == \E out \in {"done", "failed"} : PollWith(out)

\* a poll on which it reports anything else, or raises
PollOther == \E out \in {"running", "queued", "unknown", "raise"} : PollWith(out)

\* a tick shorter than half a second is not taken forever
QuickAllowed(f) == \A j \in 1 .. Len(f) : f[j].no_change_count <= MaxQuickPolls

\* the poll loop ends: heartbeat, time.sleep(poll_interval)
Sleep ==
    /\ pc = "poll"
    /\ i > Len(inflight)
    /\ \E d \in env.sleep :
          /\ d = 0 => QuickAllowed(inflight)
          /\ inflight' = Elapse(inflight, d)
    /\ pc' = "loop"
    /\ ticks' = IF env \in SteadyRuns THEN ticks + 1 ELSE ticks
    /\ UNCHANGED <<env, tasks, max_inflight, task, pending, done, i, posts, obs, calls>>

Next == LoopTest \/ Launch \/ StartPoll \/ PollTerminal \/ PollOther \/ Sleep

Spec == Init /\ [][Next]_vars

\* run_queue under a backend that answers every call and, for every handle
\* polled again and again, eventually answers done or failed
LiveInit == Init /\ env \in CoarseRuns

LiveSpec == LiveInit /\ [][Next]_vars /\ WF_vars(Next) /\ SF_vars(PollTerminal)

\* run_queue under a backend that answers or fails every call, in any way
\* at all, and a clock that advances on every pass of the loop
ClockSpec == LiveInit /\ [][Next]_vars /\ WF_vars(Next)

(* ------------------ check_status (faceswap_all), one call -------------- *)

\* run_queue at rest
NoRun == Run(1, 0, 0, {0}, {0}, {})

\* run_queue at rest
SchedInit ==
    /\ env = NoRun
    /\ max_inflight = 1
    /\ tasks = <<>>
    /\ task = [t \in Tasks |-> NewTask(0)]
    /\ pending = <<>>
    /\ inflight = <<>>
    /\ done = <<>>
    /\ pc = "returned"
    /\ i = 1
    /\ posts = [t \in Tasks |-> 0]
    /\ obs = NoObs
    /\ ticks = 0

\* check_status(prompt_id) is entered, the backend holding hist
OracleInit ==
    /\ \E prompt_id \in Handles, hist \in Histories :
          oracle = Call(prompt_id, hist, NoQueue("skip"), NoQueue("skip"),
                        NoQueue("skip"))
    /\ prior = NoPrior
    /\ fa = FaIdle
    /\ probe = NoProbe
    /\ s1 = S1Idle
    /\ SchedInit

\* the answers a get_queue call can come back with
QueueAnswers == Queues \cup {NoQueue("raise")}

\* step 1: the first get_queue answers, the call runs on to its return or to
\* its next get_queue
FirstQueue ==
    /\ oracle.at = At("none", 183)
    /\ \E q \in QueueAnswers :
          oracle' = Call(oracle.prompt_id, oracle.hist, q, oracle.q2, oracle.q3)
    /\ UNCHANGED <<sched, prior, fa, probe, s1>>

\* step 4: the get_queue under "error"/"node_errors" answers
ErrorsQueue ==
    /\ oracle.at = At("none", 209)
    /\ \E q \in QueueAnswers :
          oracle' = Call(oracle.prompt_id, oracle.hist, oracle.q1, q, oracle.q3)
    /\ UNCHANGED <<sched, prior, fa, probe, s1>>

\* step 6: the last get_queue answers
LastQueue ==
    /\ oracle.at = At("none", 221)
    /\ \E q \in QueueAnswers :
          oracle' = Call(oracle.prompt_id, oracle.hist, oracle.q1, oracle.q2, q)
    /\ UNCHANGED <<sched, prior, fa, probe, s1>>

OracleNext == FirstQueue \/ ErrorsQueue \/ LastQueue

SpecOracle == OracleInit /\ [][OracleNext]_vars

(* ------------ check_status twice over the same snapshots --------------- *)

\* the call with the get_queue it waits at answered by q
WithRead(c, q) ==
    CASE c.at.line = 183 -> Call(c.prompt_id, c.hist, q, c.q2, c.q3)
      [] c.at.line = 209 -> Call(c.prompt_id, c.hist, c.q1, q, c.q3)
      [] OTHER -> Call(c.prompt_id, c.hist, c.q1, c.q2, q)

\* a first call is entered; the backend holds hist and one /queue snapshot
RepeatInit ==
    /\ \E prompt_id \in Handles, hist \in Histories :
          oracle = Call(prompt_id, hist, NoQueue("skip"), NoQueue("skip"),
                        NoQueue("skip"))
    /\ \E q \in QueueAnswers : prior = [NoPrior EXCEPT !.queue = q]
    /\ fa = FaIdle
    /\ probe = NoProbe
    /\ s1 = S1Idle
    /\ SchedInit

\* a get_queue of the call answers with the snapshot
ReadSnapshot ==
    /\ oracle.at.status = "none"
    /\ oracle' = WithRead(oracle, prior.queue)
    /\ UNCHANGED <<sched, prior, fa, probe, s1>>

\* the first call has returned; check_status is called again for the same
\* handle over the same history
CallAgain ==
    /\ oracle.at.status \notin {"none", "idle"}
    /\ ~prior.made
    /\ prior' = [prior EXCEPT !.made = TRUE, !.status = oracle.at.status]
    /\ oracle' = Call(oracle.prompt_id, oracle.hist, NoQueue("skip"),
                      NoQueue("skip"), NoQueue("skip"))
    /\ UNCHANGED <<sched, fa, probe, s1>>

RepeatNext == ReadSnapshot \/ CallAgain

SpecRepeat == RepeatInit /\ [][RepeatNext]_vars

(* ----------------------- check_status (改3), one call ------------------- *)

\* check_status(prompt_id) is entered, the backend holding hist
ProbeInit ==
    /\ \E hist \in Histories3 :
          probe = Call3(Handle3, hist, NoRead("skip"), NoRead("skip"))
    /\ oracle = NoCall
    /\ prior = NoPrior
    /\ fa = FaIdle
    /\ s1 = S1Idle
    /\ SchedInit

\* the answers a get_queue call can come back with
QueueAnswers3 == QueueReads(Handle3) \cup {NoRead("raise")}

\* the first get_queue answers
ProbeFirstQueue ==
    /\ probe.at = At("none", 107)
    /\ \E q \in QueueAnswers3 :
          probe' = Call3(probe.prompt_id, probe.hist, q, probe.q2)
    /\ UNCHANGED <<sched, oracle, prior, fa, s1>>

\* the get_queue after the half-second wait answers
ProbeSecondQueue ==
    /\ probe.at = At("none", 140)
    /\ \E q \in QueueAnswers3 :
          probe' = Call3(probe.prompt_id, probe.hist, probe.q1, q)
    /\ UNCHANGED <<sched, oracle, prior, fa, s1>>

ProbeNext == ProbeFirstQueue \/ ProbeSecondQueue

SpecProbe == ProbeInit /\ [][ProbeNext]_vars

(* --------------------- run_queue (faceswap_all) ------------------------ *)

FaInit ==
    /\ \E mi \in Limits, n \in 0 .. NumTasks + 1, r \in 0 .. MaxRetriesBound,
          cs \in Backends :
          fa = [FaStart(mi, n, r) EXCEPT !.checks = cs]
    /\ oracle = NoCall
    /\ prior = NoPrior
    /\ probe = NoProbe
    /\ s1 = S1Idle
    /\ SchedInit

\* lines 132-151: the empty list returns at once, else the mode is chosen
FaEnter ==
    /\ fa.pc = "entry"
    /\ fa' = [fa EXCEPT !.pc = IF fa.ntasks = 0 THEN "returned"
                               ELSE IF unbounded(fa.max_inflight) THEN "submit_all"
                               ELSE "fill"]
    /\ UNCHANGED <<sched, oracle, prior, probe, s1>>

\* the body shared by both submit loops: pop the head, _submit it, and on
\* an error retry it at the tail or record the failure
Submitted(f, out) ==
    LET t == Head(f.pending)
        rest == Tail(f.pending)
        g == [f EXCEPT !.submits[t] = @ + 1]
    IN
    IF out # "ok"
    THEN IF f.budget[t] > 0
         THEN [g EXCEPT !.budget[t] = @ - 1, !.pending = Append(rest, t)]
         ELSE [g EXCEPT !.pending = rest,
                        !.results = Append(@, Res(t, NoId, submit_err(out)))]
    ELSE [g EXCEPT !.pending = rest,
                   !.active = Append(@, [task |-> t,
                                        prompt_id |-> PromptId(t, f.submits[t] + 1)])]

\* one pass of "while pending" of the unbounded mode, and its test
FaSubmitAll ==
    /\ fa.pc = "submit_all"
    /\ fa.pending # <<>>
    /\ \E out \in SubmitOutcomes :
          LET g == Submitted(fa, out) IN
          fa' = [g EXCEPT !.pc = IF g.pending = <<>> THEN "wait_all" ELSE "submit_all"]
    /\ UNCHANGED <<sched, oracle, prior, probe, s1>>

\* "while active" of the unbounded mode, and the sleep of the pass
FaWaitAll ==
    /\ fa.pc = "wait_all"
    /\ fa' = IF fa.active = <<>> THEN [fa EXCEPT !.pc = "returned"]
             ELSE [fa EXCEPT !.pc = "check_all", !.i = Len(fa.active)]
    /\ UNCHANGED <<sched, oracle, prior, probe, s1>>

\* one pass of "for i in range(len(active) - 1, -1, -1)", in either mode
FaCheck ==
    /\ fa.pc \in {"check_all", "check"}
    /\ fa.i >= 1
    /\ \E out \in fa.checks :
          LET st == fa.active[fa.i]
              r == check_done(out)
              g == IF r.done
                   THEN [fa EXCEPT !.results = Append(@, Res(st.task, st.prompt_id, r.err)),
                                   !.active = PopAt(@, fa.i)]
                   ELSE fa
          IN
          fa' = [g EXCEPT !.polled = TRUE, !.seen = out, !.i = fa.i - 1,
                          !.pc = IF fa.i > 1 THEN fa.pc
                                 ELSE IF fa.pc = "check_all" THEN "wait_all"
                                 ELSE "loop"]
    /\ UNCHANGED <<sched, oracle, prior, probe, s1>>

\* "while pending or active" of the bounded mode
FaLoop ==
    /\ fa.pc = "loop"
    /\ fa' = [fa EXCEPT !.pc = IF fa.pending # <<>> \/ fa.active # <<>>
                               THEN "fill" ELSE "returned"]
    /\ UNCHANGED <<sched, oracle, prior, probe, s1>>

\* "while pending and len(active) < max_inflight"
CanFill(f) == f.pending # <<>> /\ Len(f.active) < Ceiling(f.max_inflight)

\* one pass of the fill loop of the bounded mode
FaFill ==
    /\ fa.pc = "fill"
    /\ CanFill(fa)
    /\ \E out \in SubmitOutcomes : fa' = Submitted(fa, out)
    /\ UNCHANGED <<sched, oracle, prior, probe, s1>>

\* the fill loop ends: "if not active and pending: continue", else the sleep
\* and the start of the check pass
FaFillEnd ==
    /\ fa.pc = "fill"
    /\ ~CanFill(fa)
    /\ fa' = IF fa.active = <<>>
             THEN [fa EXCEPT !.pc = "loop"]
             ELSE [fa EXCEPT !.pc = "check", !.i = Len(fa.active)]
    /\ UNCHANGED <<sched, oracle, prior, probe, s1>>

FaNext ==
    FaEnter \/ FaSubmitAll \/ FaWaitAll \/ FaCheck \/ FaLoop \/ FaFill \/ FaFillEnd

SpecAll == FaInit /\ [][FaNext]_vars

\* run_queue (faceswap_all) whose calls all return and whose loops go on
SpecAllFair == FaInit /\ [][FaNext]_vars /\ WF_vars(FaNext)

(* ------------------------- submit_stage1_jobs -------------------------- *)

S1Init ==
    /\ \E m \in 1 .. MaxInflightBound, n \in 0 .. NumTasks + 1, r \in 0 .. MaxRetriesBound :
          s1 = S1Start(m, n, r)
    /\ oracle = NoCall
    /\ prior = NoPrior
    /\ fa = FaIdle
    /\ probe = NoProbe
    /\ SchedInit

\* "while pending or inflight"
S1Loop ==
    /\ s1.pc = "loop"
    /\ s1' = [s1 EXCEPT !.pc = IF s1.pending # <<>> \/ s1.inflight # <<>>
                               THEN "fill" ELSE "returned"]
    /\ UNCHANGED <<sched, oracle, prior, fa, probe>>

\* "while pending and len(inflight) < max_inflight"
S1CanFill(f) == f.pending # <<>> /\ Len(f.inflight) < f.max_inflight

\* one pass of the fill loop: pop the head, job.submit()
S1Submit ==
    /\ s1.pc = "fill"
    /\ S1CanFill(s1)
    /\ \E out \in S1SubmitOutcomes :
          LET job == Head(s1.pending).job
              r == Head(s1.pending).r
              g == [s1 EXCEPT !.pending = Tail(@), !.submits[job] = @ + 1]
          IN
          s1' = IF out = "ok"
                THEN [g EXCEPT !.inflight =
                         Append(@, [jid |-> PromptId(job, s1.submits[job] + 1),
                                    job |-> job, retries |-> r])]
                ELSE IF S1SubmitRecovered(r)
                THEN [g EXCEPT !.pending = Append(@, [job |-> job, r |-> r - 1])]
                ELSE [g EXCEPT !.pc = "raised"]
    /\ UNCHANGED <<sched, oracle, prior, fa, probe>>

\* the fill loop ends and _poll_once is entered
S1FillEnd ==
    /\ s1.pc = "fill"
    /\ ~S1CanFill(s1)
    /\ s1' = [s1 EXCEPT !.pc = "poll", !.k = 1, !.to_rm = {}]
    /\ UNCHANGED <<sched, oracle, prior, fa, probe>>

\* one pass of "for jid, entry in list(inflight.items())"
S1Poll ==
    /\ s1.pc = "poll"
    /\ s1.k <= Len(s1.inflight)
    /\ \E out \in S1PollOutcomes :
          LET entry == s1.inflight[s1.k]
              g == [s1 EXCEPT !.k = @ + 1] IN
          s1' = CASE out = "done" -> [g EXCEPT !.to_rm = @ \cup {entry.jid}]
                  [] out \in {"fail", "raise"} ->
                        [g EXCEPT !.to_rm = @ \cup {entry.jid},
                                  !.pending = IF entry.retries > 0
                                              THEN Append(@, [job |-> entry.job,
                                                              r |-> entry.retries - 1])
                                              ELSE @]
                  [] OTHER -> g
    /\ UNCHANGED <<sched, oracle, prior, fa, probe>>

\* the entries of f whose id is not in rm, in their order
RECURSIVE S1Keep(_, _)
S1Keep(f, rm) ==
    IF f = <<>> THEN <<>>
    ELSE IF Head(f).jid \in rm THEN S1Keep(Tail(f), rm)
    ELSE <<Head(f)>> \o S1Keep(Tail(f), rm)

\* "for jid in to_rm: inflight.pop(jid, None)", then the sleep of the pass
S1PollEnd ==
    /\ s1.pc = "poll"
    /\ s1.k > Len(s1.inflight)
    /\ s1' = [s1 EXCEPT !.pc = "loop", !.inflight = S1Keep(@, s1.to_rm), !.to_rm = {}]
    /\ UNCHANGED <<sched, oracle, prior, fa, probe>>

S1Next == S1Loop \/ S1Submit \/ S1FillEnd \/ S1Poll \/ S1PollEnd

SpecStage1 == S1Init /\ [][S1Next]_vars

(* ----------------------- what the claims speak of ---------------------- *)

RECURSIVE SumRetries(_)
SumRetries(n) == IF n = 0 THEN 0 ELSE task[n].retries + SumRetries(n - 1)

\* retries issued so far, over all tasks
RetriesIssued == SumRetries(NumTasks + 1)

\* the positions of done that hold a Result of task t
ResultsOf(d, t) == {k \in 1 .. Len(d) : d[k].task = t}

\* the positions of inflight that hold an entry of task t
EntriesOf(f, t) == {k \in 1 .. Len(f) : f[k].task = t}

InputTasks == {tasks[k] : k \in 1 .. Len(tasks)}

\* the step is a poll of inflight[i]
Polling == pc = "poll" /\ i <= Len(inflight)

(* C1: at every point of run_queue, after every submission and after every
   poll, the in-flight list holds at most max_inflight entries. *)
C1_BoundedAdmission == Len(inflight) <= max_inflight

\* a ceiling of 2 is reached while a task still waits, and the poll loop is
\* entered with it waiting
C1_Witness ==
    /\ max_inflight = 2
    /\ Len(inflight) = max_inflight
    /\ pending # <<>>
    /\ pc = "poll"

(* C2: with a backend that answers every call and eventually reports done or
   failed for every handle, run_queue eventually leaves its loop and
   returns. *)
C2_Termination == <>(pc = "returned")

\* a run that returned after retries, with every task given its Result
C2_Witness ==
    /\ pc = "returned"
    /\ Len(tasks) = 2
    /\ RetriesIssued > 0
    /\ \E k \in 1 .. Len(done) : done[k].error = "failed"

(* C3: a task never has more than max_retries + 1 post_prompt calls; a task
   with a failure Result has had exactly max_retries + 1 of them and has that
   one Result only, which carries the error and the task; and when run_queue
   has returned every task has a Result, so that a task none of whose
   attempts succeeded has such a failure Result. *)
C3_RetryBudget ==
    /\ \A t \in Tasks : posts[t] <= task[t].max_retries + 1
    /\ \A k \in 1 .. Len(done) :
          done[k].error # "none" =>
             /\ posts[done[k].task] = task[done[k].task].max_retries + 1
             /\ ResultsOf(done, done[k].task) = {k}
             /\ done[k].task \in InputTasks
             /\ done[k].result = "none"
    /\ pc = "returned" => \A t \in InputTasks : ResultsOf(done, t) # {}

\* a task with a budget of 2 dropped after 3 submissions, each of them
\* polled failed
C3_Witness ==
    \E k \in 1 .. Len(done) :
       /\ done[k].error = "failed"
       /\ task[done[k].task].max_retries = 2
       /\ task[done[k].task].retries = 2
       /\ posts[done[k].task] = 3

(* C4, as claimed: len(pending) + len(inflight) + len(results) equals the
   number of tasks originally submitted plus the retries issued so far. *)
C4_ConservationAsClaimed ==
    Len(pending) + Len(inflight) + Len(done) = Len(tasks) + RetriesIssued

(* C4, amended: len(pending) + len(inflight) + len(results) equals the number
   of tasks originally submitted, whatever the number of retries issued. *)
C4_Conservation == Len(pending) + Len(inflight) + Len(done) = Len(tasks)

\* retries have been issued, and tasks stand in pending, in flight and among
\* the Results
C4_Witness ==
    /\ RetriesIssued > 1
    /\ Len(pending) + Len(inflight) = 1
    /\ done # <<>>
    /\ pc = "loop"

(* C5: when run_queue returns, pending and in-flight are empty and the list
   returned holds exactly one Result for each input task, a success (no
   error) or a failure (an error); a step only ever appends one Result to the
   list, so Results stand in the order of their recording and none is removed
   or changed. *)
C5_OneResultPerTask ==
    [][ /\ pc' = "returned" =>
             /\ pending' = <<>>
             /\ inflight' = <<>>
             /\ Len(done') = Len(tasks')
             /\ \A t \in InputTasks' : Cardinality(ResultsOf(done', t)) = 1
             /\ \A k \in 1 .. Len(done') :
                   (done'[k].error = "none") # (done'[k].result = "none")
        /\ \/ done' = done
           \/ \E t \in Tasks :
                 /\ ResultsOf(done, t) = {}
                 /\ \E r \in {"none", "history", "done-no-outputs", "done-only",
                              "no_output", "heuristic"},
                       e \in {"none", "enqueue", "failed", "timeout"} :
                       done' = Append(done, Result(t, e, r))
      ]_vars

\* run_queue has returned a failure and a success, the second task's first
C5_Witness ==
    /\ pc = "returned"
    /\ Len(done) = 2
    /\ done[1].task = 2
    /\ done[1].error # "none"
    /\ done[2].error = "none"

(* C6: whatever post_prompt, check_status, peek_history and get_queue raise,
   no exception leaves run_queue. *)
C6_NeverRaises == pc # "raised"

\* run_queue has returned although a submission, a status poll's history
\* read and a status poll all raised
C6_Witness ==
    /\ pc = "returned"
    /\ \E k \in 1 .. Len(done) : done[k].error = "enqueue"
    /\ \E k \in 1 .. Len(done) : done[k].result = "done-only"

(* C7: a poll that finds unknown for an entry already recorded unknown, more
   than 30 s (in the scheduler's whole seconds) after it became unknown,
   appends a success Result for the task, removes the entry and leaves the
   retry counters and pending alone; no task that has a Result is polled;
   and a handle that is unknown on every poll, polled once a second, is
   promoted on its 32nd poll. *)
C7_UnknownPromotion ==
    [][ /\ ( /\ Polling
             /\ obs'.status = "unknown"
             /\ inflight[i].last_status = "unknown"
             /\ IntSec(inflight[i].since) > MAX_UNKNOWN_TIME )
           => /\ done' = Append(done, Result(inflight[i].task, "none", "no_output"))
              /\ inflight' = PopAt(inflight, i)
              /\ task' = task
              /\ pending' = pending
        /\ Polling => ResultsOf(done, inflight[i].task) = {}
        /\ env \in OrphanRuns =>
              /\ \A k \in 1 .. Len(inflight) : inflight[k].no_change_count <= 30
              /\ (Polling /\ inflight[i].no_change_count = 30) =>
                    /\ done' = <<Result(1, "none", "no_output")>>
                    /\ inflight' = <<>>
      ]_vars

\* the orphaned handle has been promoted: one success, no retry consumed
C7_Witness ==
    /\ env \in OrphanRuns
    /\ env.max_retries = 2
    /\ pc = "returned"
    /\ done = <<Result(1, "none", "no_output")>>
    /\ task[1].retries = 0
    /\ posts[1] = 1

(* C8: only the head of pending is submitted, a re-queued task goes to the
   tail of pending, and so no task that was submitted before stands in
   pending ahead of one that never was. *)
C8_FifoAdmission ==
    [][ /\ \A t \in Tasks :
             posts'[t] # posts[t] => pending # <<>> /\ t = Head(pending)
        /\ \A t \in Tasks :
             (task'[t].retries # task[t].retries) =>
                pending' # <<>> /\ pending'[Len(pending')] = t
        /\ \A a, b \in 1 .. Len(pending') :
             (a < b /\ posts'[pending'[b]] = 0) => posts'[pending'[a]] = 0
      ]_vars

\* task 1 was re-queued behind task 2, which was submitted first and is now
\* in flight while task 1 waits for its second submission
C8_Witness ==
    /\ pending = <<1>>
    /\ posts[1] = 1
    /\ posts[2] = 1
    /\ task[1].retries = 1
    /\ \E k \in 1 .. Len(inflight) : inflight[k].task = 2

\* the identifier an element of a bucket carries
Identifier(item) ==
    IF item.shape = "dict" /\ item.id \in {None, ""} THEN item.prompt_id ELSE item.id

\* the bucket holds an element whose identifier is the handle, blanks around
\* either left aside
Holds(bucket, handle) ==
    \E j \in 1 .. Len(bucket) :
        /\ Identifier(bucket[j]) # None
        /\ Strip(Identifier(bucket[j])) = Strip(handle)

\* the running and the pending bucket of a listing, under either key
RunningOf(q) == IF q.queue_running # <<>> THEN q.queue_running ELSE q.running

PendingOf(q) == IF q.queue_pending # <<>> THEN q.queue_pending ELSE q.pending

\* the last get_queue answer the call has read
LastRead(c) ==
    IF c.q3.kind # "skip" THEN c.q3 ELSE IF c.q2.kind # "skip" THEN c.q2 ELSE c.q1

(* C9: when the first read of the live queue succeeds and the listing holds
   the handle, check_status returns running if the running bucket holds it
   and queued if only the pending bucket does, whatever the history record
   of the handle says. *)
C9_QueueAuthoritative ==
    oracle.q1.kind = "json" =>
        /\ Holds(RunningOf(oracle.q1), oracle.prompt_id) => oracle.at.status = "running"
        /\ (~Holds(RunningOf(oracle.q1), oracle.prompt_id)
              /\ Holds(PendingOf(oracle.q1), oracle.prompt_id))
           => oracle.at.status = "queued"

\* the handle is only in the pending bucket while its history record says
\* error: the call returned queued
C9_Witness ==
    /\ oracle.q1.kind = "json"
    /\ ~Holds(RunningOf(oracle.q1), oracle.prompt_id)
    /\ Holds(PendingOf(oracle.q1), oracle.prompt_id)
    /\ oracle.hist.kind = "json"
    /\ oracle.hist.top.is = "dict"
    /\ oracle.hist.top.rec.status = StatusStr("Error")
    /\ oracle.at.status = "queued"

(* C10: check_status returns failed only when the history record was read
   and the last look at the queue succeeded and showed the handle absent; a
   read that raised never ends in failed. *)
C10_ReadFailuresNotTaskFailures ==
    oracle.at.status = "failed" =>
        /\ peek_history(oracle.hist).is = "dict"
        /\ oracle.q1.kind # "raise" /\ oracle.q2.kind # "raise" /\ oracle.q3.kind # "raise"
        /\ LastRead(oracle).kind = "json"
        /\ ~Holds(RunningOf(LastRead(oracle)), oracle.prompt_id)
        /\ ~Holds(PendingOf(LastRead(oracle)), oracle.prompt_id)

(* C11: when the status poll of an in-flight task raises, and the task is not
   past the age ceiling at that poll, the poll changes no retry counter,
   records no Result, re-queues nothing and leaves the entry, with the same
   handle, in flight for the next tick. *)
C11_ProbeErrorFrame ==
    [][(Polling /\ obs'.out = "raise" /\ IntSec(inflight[i].age) <= MAX_AGE)
         => /\ task' = task
            /\ done' = done
            /\ pending' = pending
            /\ Len(inflight') = Len(inflight)
            /\ inflight'[i].id = inflight[i].id
            /\ inflight'[i].task = inflight[i].task
            /\ i' = i + 1
            /\ pc' = "poll"]_vars

\* the poll of a handle raised twice in a row; its task is still in flight
\* with its budget untouched and nothing recorded
C11_Witness ==
    /\ pc = "poll"
    /\ obs.out = "raise"
    /\ done = <<>>
    /\ pending = <<>>
    /\ \E k \in 1 .. Len(inflight) :
          /\ inflight[k].id = obs.id
          /\ inflight[k].last_status = "probe-error"
          /\ inflight[k].no_change_count = 1
          /\ task[inflight[k].task].retries = 0
          /\ task[inflight[k].task].max_retries > 0

\* the step records a success Result
Succeeds == Len(done') = Len(done) + 1 /\ done'[Len(done')].error = "none"

(* C12: a poll of an in-flight entry older than 300 whole seconds whose
   status is neither done nor failed and which is not promoted at that poll
   removes the entry; if the task has retries left it consumes one and goes
   to the tail of pending, otherwise it gets a Result with error "timeout".
   A Result with error "failed" comes only from a poll answered failed. *)
C12_TimeoutEviction ==
    [][/\ (Polling /\ obs'.status \notin {"done", "failed"}
            /\ IntSec(inflight[i].age) > MAX_AGE /\ ~Succeeds)
          => LET t == inflight[i].task IN
             /\ inflight' = PopAt(inflight, i)
             /\ IF task[t].retries < task[t].max_retries
                THEN /\ task'[t].retries = task[t].retries + 1
                     /\ \A u \in Tasks \ {t} : task'[u] = task[u]
                     /\ pending' = Append(pending, t)
                     /\ done' = done
                ELSE /\ done' = Append(done, Result(t, "timeout", "none"))
                     /\ pending' = pending
                     /\ task' = task
       /\ (Len(done') = Len(done) + 1 /\ done'[Len(done')].error = "failed")
          => Polling /\ obs'.status = "failed"
       /\ (Len(done') = Len(done) + 1 /\ done'[Len(done')].error = "timeout")
          => Polling /\ IntSec(inflight[i].age) > MAX_AGE]_vars

\* a task timed out while running, was re-queued, and timed out again with
\* no retry left: its Result says timeout
C12_Witness ==
    /\ pc = "poll"
    /\ done # <<>>
    /\ done[Len(done)].error = "timeout"
    /\ obs.status = "running"
    /\ obs.id[1] = done[Len(done)].task
    /\ task[done[Len(done)].task].retries > 0

\* the step is a post_prompt call of the admit loop that raised
PostRaised == pc = "admit" /\ posts' # posts /\ obs'.out = "raise"

(* C13: when post_prompt raises in the admit loop, no in-flight entry is
   created; a task with retries left consumes exactly one and goes to the
   tail of pending, a task with none left gets a failure Result at once.
   With every poll answered done, a task that ends in success after one
   retry was submitted exactly twice. *)
C13_SubmissionFailure ==
    [][/\ PostRaised
          => LET t == Head(pending) IN
             /\ posts' = [posts EXCEPT ![t] = @ + 1]
             /\ Len(inflight') = Len(inflight)
             /\ \A k \in 1 .. Len(inflight) : inflight'[k].id = inflight[k].id
             /\ pc' = "admit"
             /\ IF task[t].retries < task[t].max_retries
                THEN /\ task'[t].retries = task[t].retries + 1
                     /\ \A u \in Tasks \ {t} : task'[u] = task[u]
                     /\ pending' = Append(Tail(pending), t)
                     /\ done' = done
                ELSE /\ done' = Append(done, Result(t, "enqueue", "none"))
                     /\ pending' = Tail(pending)
                     /\ task' = task
       /\ (env \in FlakyPostRuns /\ done' # <<>> /\ done'[1].error = "none")
          => posts'[1] = task'[1].retries + 1]_vars

\* budget 2, the first submission threw, the second succeeded, the poll
\* answered done: the run returned one success after 2 submissions
C13_Witness ==
    /\ env \in FlakyPostRuns
    /\ pc = "returned"
    /\ Len(done) = 1
    /\ done[1].error = "none"
    /\ task[1].retries = 1
    /\ posts[1] = 2

(* C14: 3 tasks under max_inflight = 2, every submission accepted and every
   first poll answered done: the in-flight list never holds more than 2
   entries, and run_queue returns after exactly 2 passes of its loop with 3
   success Results, one for each task. *)
C14_ThreeTasksTwoSlots ==
    env \in SteadyRuns =>
        /\ Len(inflight) <= 2
        /\ ticks <= 2
        /\ pc = "returned" =>
              /\ ticks = 2
              /\ Len(done) = 3
              /\ \A k \in 1 .. 3 : done[k].error = "none"
              /\ {done[k].task : k \in 1 .. 3} = {1, 2, 3}
              /\ \A t \in 1 .. 3 : posts[t] = 1

\* the run of the scenario has returned
C14_Witness ==
    /\ env \in SteadyRuns
    /\ pc = "returned"
    /\ ticks = 2
    /\ done = <<Result(1, "none", "history"), Result(2, "none", "history"),
                Result(3, "none", "history")>>

\* every look at the queue the call has made succeeded and showed the
\* handle in neither bucket
SeenAbsent(c) ==
    /\ c.q1.kind = "json"
    /\ \A q \in {c.q1, c.q2, c.q3} :
          /\ q.kind \in {"json", "skip"}
          /\ ~Holds(RunningOf(q), c.prompt_id)
          /\ ~Holds(PendingOf(q), c.prompt_id)

\* the call has returned
Returned(c) == c.at.status \notin {"none", "idle"}

(* C15: for a handle absent from the live queue whose history record holds
   an "outputs" field that is present but empty, and no status field,
   check_status returns done. *)
C15_EmptyOutputsIsDone ==
    ( /\ Returned(oracle)
      /\ SeenAbsent(oracle)
      /\ peek_history(oracle.hist)
            = Entry("dict", Rec(StatusAbsent, "absent", "absent", "empty")) )
    => oracle.at.status = "done"

(* C16: a second call of check_status for the same handle, seeing the same
   /queue snapshot and the same history on all of its reads as the first,
   returns the status the first returned. *)
C16_SameSnapshotsSameStatus ==
    (prior.made /\ Returned(oracle)) => oracle.at.status = prior.status

\* both calls went on to the last look at the queue and returned unknown
C16_Witness ==
    /\ prior.made
    /\ prior.status = "unknown"
    /\ Returned(oracle)
    /\ oracle.q3.kind = "json"
    /\ oracle.at.status = "unknown"

\* the tokens of failure and of completion
FailedTokens == {"error", "failed", "interrupted", "exception"}

DoneTokens == {"completed", "success", "ok", "done", "finished"}

\* the history holds no record for the handle
NoRecord(hist) ==
    hist.kind # "json" \/ (hist.top.is # "dict" /\ hist.nested.is # "dict")

(* C17: check_status returns one of queued, running, done, failed, unknown.
   For a handle seen absent from the queue it returns unknown when the
   history holds no record, failed when the record's status token (a bare
   text or the text of a nested status structure, trimmed and lower-cased)
   is error, failed, interrupted or exception, and otherwise done when the
   token is completed, success, ok, done or finished or the completed flag
   is true. *)
C17_TokenMapping ==
    Returned(oracle) =>
        /\ oracle.at.status \in {"queued", "running", "done", "failed", "unknown"}
        /\ SeenAbsent(oracle) =>
              LET sf == extract_status_fields(peek_history(oracle.hist).rec) IN
              /\ NoRecord(oracle.hist) => oracle.at.status = "unknown"
              /\ (~NoRecord(oracle.hist) /\ sf.status_str \in FailedTokens)
                    => oracle.at.status = "failed"
              /\ ( /\ ~NoRecord(oracle.hist)
                    /\ sf.status_str \notin FailedTokens
                    /\ (sf.status_str \in DoneTokens \/ sf.completed = "true") )
                    => oracle.at.status = "done"

\* the nested status {"status": "Error"} of an absent handle came back
\* failed
C17_Witness ==
    /\ Returned(oracle)
    /\ SeenAbsent(oracle)
    /\ oracle.hist.kind = "json"
    /\ oracle.hist.top.is = "dict"
    /\ oracle.hist.top.rec.status
          = StatusDict(None, [NoKeys EXCEPT !["status"] = "Error"])
    /\ oracle.at.status = "failed"

\* the element carries an identifier that is the handle, character for
\* character
Carries(item, handle) ==
    IF item.shape = "dict"
    THEN item.id = handle \/ item.prompt_id = handle
    ELSE item.id = handle

\* some element of the bucket does
HoldsExactly(bucket, handle) ==
    \E j \in 1 .. Len(bucket) : Carries(bucket[j], handle)

(* C18, as claimed: _id_in_queue answers running exactly when an element of
   the running bucket carries an identifier equal to the handle, queued
   exactly when none does and an element of the pending bucket does, and
   none otherwise. *)
C18_MembershipAsClaimed ==
    oracle.q1.kind = "json" =>
        LET inRunning == HoldsExactly(RunningOf(oracle.q1), oracle.prompt_id)
            inPending == HoldsExactly(PendingOf(oracle.q1), oracle.prompt_id)
        IN
        /\ oracle.at = At("running", 186) <=> inRunning
        /\ oracle.at = At("queued", 186) <=> (~inRunning /\ inPending)

(* C18, amended: the same with identifiers compared after str().strip(), an
   empty identifier matching nothing, and a keyed record carrying its "id",
   or its "prompt_id" when "id" is missing or empty. *)
C18_Membership ==
    oracle.q1.kind = "json" =>
        LET inRunning == Holds(RunningOf(oracle.q1), oracle.prompt_id)
            inPending == Holds(PendingOf(oracle.q1), oracle.prompt_id)
        IN
        /\ oracle.at = At("running", 186) <=> inRunning
        /\ oracle.at = At("queued", 186) <=> (~inRunning /\ inPending)
        /\ oracle.at.line # 186 <=> (~inRunning /\ ~inPending)

\* the handle " p1 " was found running through a keyed record that holds
\* "p1" under "prompt_id"
C18_Witness ==
    /\ oracle.prompt_id = " p1 "
    /\ oracle.q1 = Queue(<<Item("dict", None, "p1")>>, <<>>, <<>>, <<>>)
    /\ oracle.at = At("running", 186)

(* C19: run_queue (faceswap_all) called with max_inflight None or 0 has
   submitted every task, retries of failed submissions included, before its
   first status poll, and submits nothing afterwards; called with any other
   value it never holds more than max(1, max_inflight) active entries. *)
C19_UnboundedMode ==
    LET mi == fa.max_inflight IN
    /\ (fa.pc # "idle" /\ (~mi.given \/ mi.n = 0))
         => /\ fa.polled => /\ fa.pending = <<>>
                            /\ fa.pc \in {"wait_all", "check_all", "returned"}
                            /\ Len(fa.active) + Len(fa.results) = fa.ntasks
            /\ fa.pc \notin {"fill", "loop", "check"}
    /\ (fa.pc # "idle" /\ mi.given /\ mi.n # 0)
         => /\ Len(fa.active) <= (IF mi.n > 1 THEN mi.n ELSE 1)
            /\ fa.pc \notin {"submit_all", "wait_all", "check_all"}

\* max_inflight = 0: all 3 tasks are active, one of them after a retried
\* submission, and no status poll has been made yet
C19_Witness ==
    /\ fa.max_inflight = Limit(0)
    /\ fa.ntasks = 3
    /\ Len(fa.active) = 3
    /\ fa.submits[1] = 2
    /\ ~fa.polled
    /\ fa.pc = "wait_all"

(* C20: a poll that observes unknown for a task whose recorded status was
   not unknown before does not promote the task on that poll, however long
   the task had been in its previous status. *)
C20_UnknownMeasuredFromChange ==
    [][(Polling /\ obs'.status = "unknown" /\ inflight[i].last_status # "unknown")
         => ~Succeeds]_vars

\* some element of a bucket of the listing carries the handle, whatever the
\* element's shape
InLiveQueue(q, tid) ==
    \E bucket \in {q.queue_running, q.queue_pending} :
        \E j \in 1 .. Len(bucket) : bucket[j].id = tid

\* the step records a success Result through the stale rule
StalePromotes ==
    Len(done') = Len(done) + 1 /\ done'[Len(done')].result = "heuristic"

(* C21: the stale rule promotes a task observed queued or running only if
   the entry has repeated its status on more than 3 consecutive polls, more
   than 10 s have passed since its last status change, and the re-read of the
   live queue succeeded and shows the handle in neither bucket, whatever the
   shape of the elements; a task whose handle is still in the live queue, or
   whose re-read raised, is not given a success Result on that poll. *)
C21_StaleHeuristic ==
    [][/\ StalePromotes
          => /\ Polling
             /\ obs'.status \in {"queued", "running"}
             /\ obs'.status = inflight[i].last_status
             /\ inflight[i].no_change_count + 1 > STALE_CHECKS
             /\ IntSec(inflight[i].since) > STALE_THRESHOLD
             /\ obs'.queue.kind = "json"
             /\ ~InLiveQueue(obs'.queue, inflight[i].id)
       /\ ( /\ Polling
            /\ obs'.status \in {"queued", "running"}
            /\ \/ obs'.queue.kind = "raise"
               \/ obs'.queue.kind = "json" /\ InLiveQueue(obs'.queue, inflight[i].id) )
          => ~Succeeds]_vars

\* the five normalized states
NormalizedStatus == {"queued", "running", "done", "failed", "unknown"}

(* C22: the last_status recorded for every in-flight entry is at all times
   one of queued, running, done, failed, unknown, also after a poll on which
   the status call raised. *)
C22_ClosedStatusSet ==
    \A k \in 1 .. Len(inflight) : inflight[k].last_status \in NormalizedStatus

(* C23: a poll that leaves the entry in flight sets its no_change_count to 0
   and its last_status and last_change to the polled status and the tick
   time when the polled status differs from the recorded one, and adds one to
   no_change_count, leaving last_change alone, when it is the same; so the
   counter of every entry is the number of polls in a row that repeated the
   entry's current status. *)
C23_NoChangeCounter ==
    [][ /\ (Polling /\ pc' = "poll" /\ Len(inflight') = Len(inflight)) =>
             LET old == inflight[i]
                 new == inflight'[i]
             IN
             IF obs'.status # old.last_status
             THEN /\ new.no_change_count = 0
                  /\ new.last_status = obs'.status
                  /\ new.since = 0
             ELSE /\ new.no_change_count = old.no_change_count + 1
                  /\ new.last_status = old.last_status
                  /\ new.since = old.since
        /\ \A k \in 1 .. Len(inflight') :
             /\ inflight'[k].no_change_count = inflight'[k].run_len
             /\ inflight'[k].last_status = inflight'[k].run_status
      ]_vars

\* an entry whose status changed to running and was then polled running
\* twice more, some time after the change
C23_Witness ==
    /\ pc = "poll"
    /\ obs.status = "running"
    /\ \E k \in 1 .. Len(inflight) :
          /\ inflight[k].id = obs.id
          /\ inflight[k].last_status = "running"
          /\ inflight[k].no_change_count = 2
          /\ inflight[k].since > 0

\* the step is a completion check of fa.active[fa.i]
FaChecking == fa.pc \in {"check_all", "check"} /\ fa.i >= 1

(* C24: in run_queue (faceswap_all), a completion check that reports a
   submitted task as failed gives the task a failure Result only when its
   max_retries budget is exhausted; while the budget is above 0 the task
   goes to the tail of pending instead. *)
C24_RemoteFailureRetried ==
    [][FaChecking =>
         LET st == fa.active[fa.i] IN
         (fa'.results = Append(fa.results, Res(st.task, st.prompt_id, "error")))
            => fa.budget[st.task] = 0]_vars

\* the answer of /history/{prompt_id} holds no record for the handle
NoRecord3(hist) ==
    /\ hist.kind = "json"
    /\ hist.top.is = "absent"
    /\ hist.nested.is = "absent"

\* every look at the queue the call has made succeeded and showed the
\* handle in neither bucket
SeenAbsent3(c) ==
    /\ c.q1.kind = "json"
    /\ \A q \in {c.q1, c.q2} :
          q.kind \in {"json", "skip"} /\ ~InLiveQueue(q, c.prompt_id)

(* C25: check_status (改3) returns unknown whenever the handle is absent from
   the live queue and the history answer holds no record for the handle, an
   empty answer included; and it returns neither done nor running when the
   history answer holds no record and the queue did not show the handle. *)
C25_NoRecordIsUnknown ==
    (Returned(probe) /\ NoRecord3(probe.hist)) =>
        /\ SeenAbsent3(probe) => probe.at.status = "unknown"
        /\ probe.at.line # 110 => probe.at.status \notin {"done", "running"}

(* C26: no exception leaves submit_stage1_jobs, neither when a submission
   fails with no retries remaining nor when a history lookup fails. *)
C26_Stage1NeverRaises == s1.pc # "raised"

(* C27: in run_queue (faceswap_all), a completion check whose history or
   queue read raised leaves the task in the active set with its handle,
   records no Result, and changes neither the retry budgets nor pending; the
   pass goes on to the next entry, and the entry is there for the next
   pass. *)
C27_ReadErrorsKeepPolling ==
    [][(FaChecking /\ fa'.seen = "raise")
         => /\ fa'.active = fa.active
            /\ fa'.results = fa.results
            /\ fa'.budget = fa.budget
            /\ fa'.pending = fa.pending
            /\ fa'.i = fa.i - 1
            /\ fa'.pc \in {"check", "check_all", "loop", "wait_all"}]_vars

\* the only check made so far raised: the task, with a budget of 2, is
\* still active, has no Result, and the next pass is about to start
C27_Witness ==
    /\ fa.seen = "raise"
    /\ fa.pc = "loop"
    /\ Len(fa.active) = 1
    /\ fa.results = <<>>
    /\ fa.pending = <<>>
    /\ fa.budget[fa.active[1].task] = 2

(* C28: with max_inflight >= 1, a finite retry budget, remote calls that
   return or raise and a clock that advances on every pass, run_queue
   returns whatever the backend answers; and a poll of an entry whose age is
   above 300 s removes the entry from the in-flight list. *)
C28_AgeCeilingTermination ==
    /\ <>(pc = "returned")
    /\ [][(Polling /\ IntSec(inflight[i].age) > MAX_AGE)
            => inflight' = PopAt(inflight, i)]_vars

\* a run has returned with nothing but timeouts: 3 submissions of its one
\* task, each evicted at the age ceiling
C28_Witness ==
    /\ pc = "returned"
    /\ max_inflight >= 1
    /\ done = <<Result(1, "timeout", "none")>>
    /\ task[1].retries = 2
    /\ posts[1] = 3

\* the step is a failure of task t: a submission of it that raised, or a
\* poll that removed its entry without a success
Fails(t) ==
    \/ PostRaised /\ Head(pending) = t
    \/ Polling /\ inflight[i].task = t /\ Len(inflight') < Len(inflight) /\ ~Succeeds

(* C29: a task's retries counter starts at 0, never decreases, grows by one
   at a time and never exceeds max_retries; post_prompt is called for the
   task at most retries + 1 times, hence at most max_retries + 1 times; and
   every failure of the task, be it a submission that raised, a poll
   answered failed or an eviction at the age ceiling, adds one to that same
   counter while it is below max_retries and gives the task its failure
   Result when it is not. *)
C29_SharedBudget ==
    [][\A t \in Tasks :
          /\ task'[t].retries \in {task[t].retries, task[t].retries + 1}
          /\ task'[t].max_retries = task[t].max_retries
          /\ task'[t].retries <= task'[t].max_retries
          /\ posts'[t] <= task'[t].retries + 1
          /\ Fails(t) =>
                IF task[t].retries < task[t].max_retries
                THEN /\ task'[t].retries = task[t].retries + 1
                     /\ done' = done
                ELSE /\ task' = task
                     /\ Len(done') = Len(done) + 1
                     /\ done'[Len(done')].task = t
                     /\ done'[Len(done')].error # "none"
      ]_vars

\* a task with a budget of 2 has its failure Result after a submission that
\* raised, a poll answered failed and an eviction at the age ceiling
C29_Witness ==
    \E k \in 1 .. Len(done) :
       LET t == done[k].task IN
       /\ env \in MixedRuns
       /\ done[k].error # "none"
       /\ task[t].max_retries = 2
       /\ task[t].retries = 2
       /\ posts[t] = 3
       /\ task[t].drew \cup {done[k].error} = {"enqueue", "failed", "timeout"}

\* the positions of pending that hold task t
WaitingOf(p, t) == {k \in 1 .. Len(p) : p[k] = t}

(* C30: between the steps of run_queue every input task stands at exactly
   one place: once in pending, or as one entry of the in-flight list, or as
   one Result; and a task that has a Result is neither submitted nor polled
   again. *)
C30_ExclusiveLocation ==
    /\ [](\A t \in InputTasks :
            Cardinality(WaitingOf(pending, t)) + Cardinality(EntriesOf(inflight, t))
               + Cardinality(ResultsOf(done, t)) = 1)
    /\ [][/\ \A t \in Tasks : posts'[t] # posts[t] => ResultsOf(done, t) = {}
          /\ Polling => ResultsOf(done, inflight[i].task) = {}
          /\ \A t \in Tasks : ResultsOf(done, t) # {} =>
                /\ ResultsOf(done', t) = ResultsOf(done, t)
                /\ WaitingOf(pending', t) = {}
                /\ EntriesOf(inflight', t) = {}]_vars

\* of 3 tasks under a ceiling of 2, one has its Result, one is in flight
\* and has just been polled, one still waits in pending
C30_Witness ==
    /\ pc = "poll"
    /\ Len(tasks) = 3
    /\ Len(done) = 1
    /\ Len(inflight) = 1
    /\ Len(pending) = 1
    /\ obs.id # NoId

\* the history never holds a record, and a handle is in the active set
Orphaned == fa.checks = {"norecord"} /\ fa.active # <<>>

(* C31: in run_queue (faceswap_all) an entry leaves the active set only on a
   completion check that reports done, and it is the entry checked; under a
   backend whose history never holds a record, a submitted handle stays in
   the active set, no Result is recorded for it, run_queue does not return,
   and the handle is checked again and again. *)
C31_NoTimeout ==
    /\ [][Len(fa'.active) < Len(fa.active)
            => /\ FaChecking
               /\ fa'.seen \in {"completed", "error"}
               /\ fa'.active = PopAt(fa.active, fa.i)]_vars
    /\ [][Orphaned
            => /\ \A k \in 1 .. Len(fa.active) : fa'.active[k] = fa.active[k]
               /\ \A k \in 1 .. Len(fa'.results) :
                     fa'.results[k].prompt_id = NoId
               /\ fa'.pc # "returned"]_vars
    /\ [](Orphaned => <>(FaChecking /\ fa.polled))

\* a pass of checks over the one orphaned handle has ended; the handle is
\* still active, without a Result, and the loop goes on
C31_Witness ==
    /\ Orphaned
    /\ fa.polled
    /\ fa.seen = "norecord"
    /\ fa.pc = "loop"
    /\ Len(fa.active) = 1
    /\ fa.results = <<>>

====
